---- MODULE Spec2Model ----
(***************************************************************************)
(* A model of nolcrawler (src/nol_lib.py, src/nol_app.py).                 *)
(*                                                                         *)
(*   Spec         the ReadCache class alone: load / invalidate / reset     *)
(*                 with an arbitrary miss function.                        *)
(*   CrawlerSpec  a NolCrawler instance: get_course / flush_cache /        *)
(*                 flush_cache_all over its ReadCache, the page loader     *)
(*                 get_page and the remote source it asks.                 *)
(*   DecoderSpec  read_time_clsrom, one character of the text per step.    *)
(*   AppSpec      the main program of nol_app: the loop that asks a        *)
(*                 NolCrawler for every record and prints it.              *)
(*                                                                         *)
(* Python tuples and lists are 0-based, TLA+ sequences 1-based: the slot   *)
(* tuple (valid, addr, value) is <<valid, addr, value>>, so the code's     *)
(* cache[index][0] is cache[index][1] here.  The slot list itself is a     *)
(* function on 0 .. size-1, as in the code.                                *)
(***************************************************************************)
EXTENDS Integers, Sequences, FiniteSets, TLC

VARIABLES
    cache,      \* ReadCache.cache: slot index -> <<valid, addr, value>>
    size,       \* ReadCache.size
    ceiba,      \* NolCrawler.ceiba
    last,       \* the operation that ran last: its arguments and what it did
    prev,       \* <<op, argument, raised>> of the operation before it
    dec,        \* the locals of read_time_clsrom while it runs
    app         \* the locals of nol_app's main program while it runs

vars == <<cache, size, ceiba, last, prev, dec, app>>

\* Python's None.
None == "None"

(***************************************************************************)
(* Bounds of the model.                                                    *)
(***************************************************************************)
\* Cache sizes 1 .. MaxSize are tried (the constructor's argument).
MaxSize == 3
\* ReadCache addresses -1 .. MaxAddr are loaded and invalidated.
MaxAddr == 3
\* The miss function returns one of the values 1 .. MaxVal, or raises.
MaxVal == 2

Addrs == (-1) .. MaxAddr
Values == 1 .. MaxVal

(***************************************************************************)
(* class ReadCache                                                         *)
(***************************************************************************)
EmptySlot == <<FALSE, None, None>>

\* ReadCache.reset: self.cache = [(False, None, None)] * self.size
reset_keeps_valid(sz) == [index \in 0 .. (sz - 1) |-> <<TRUE, -99, None>>]

reset(sz) == [index \in 0 .. (sz - 1) |-> EmptySlot]

\* ReadCache.invalidate: the cache after invalidate(addr).
invalidate_always(c, sz, addr) ==
    [c EXCEPT ![addr % sz] = EmptySlot]

invalidate_noop(c, sz, addr) == c

invalidate(c, sz, addr) ==
    LET index == addr % sz
    IN  IF c[index][1] /\ c[index][2] = addr
        THEN [c EXCEPT ![index] = EmptySlot]
        ELSE c

\* What the miss function does when it is called: it returns a value or it
\* raises.
MissOutcomes ==
    [raised : {FALSE}, value : Values] \cup [raised : {TRUE}, value : {None}]

\* ReadCache.load, given what miss_func(user_data) does if it is called:
\* the cache afterwards, the value returned (None when the call raised),
\* whether it raised, and how often miss_func was called.
load_valid_only(c, sz, addr, miss) ==
    LET index == addr % sz
    IN  IF c[index][1]
        THEN [cache |-> c, ret |-> c[index][3], raised |-> FALSE, calls |-> 0]
        ELSE IF miss.raised
        THEN [cache |-> c, ret |-> None, raised |-> TRUE, calls |-> 1]
        ELSE [cache |-> [c EXCEPT ![index] = <<TRUE, addr, miss.value>>],
              ret |-> miss.value, raised |-> FALSE, calls |-> 1]

load_never_hits(c, sz, addr, miss) ==
    LET index == addr % sz
    IN  IF miss.raised
        THEN [cache |-> c, ret |-> None, raised |-> TRUE, calls |-> 1]
        ELSE [cache |-> [c EXCEPT ![index] = <<TRUE, addr, miss.value>>],
              ret |-> miss.value, raised |-> FALSE, calls |-> 1]

load_store_first(c, sz, addr, miss) ==
    LET index == addr % sz
    IN  IF c[index][1] /\ c[index][2] = addr
        THEN [cache |-> c, ret |-> c[index][3], raised |-> FALSE, calls |-> 0]
        ELSE IF miss.raised
        THEN [cache |-> [c EXCEPT ![index] = <<TRUE, addr, None>>],
              ret |-> None, raised |-> TRUE, calls |-> 1]
        ELSE [cache |-> [c EXCEPT ![index] = <<TRUE, addr, miss.value>>],
              ret |-> miss.value, raised |-> FALSE, calls |-> 1]

\* load that keeps every value it fetches in the first slot.
load_first_slot(c, sz, addr, miss) ==
    LET index == addr % sz
    IN  IF c[index][1] /\ c[index][2] = addr
        THEN [cache |-> c, ret |-> c[index][3], raised |-> FALSE, calls |-> 0]
        ELSE IF miss.raised
        THEN [cache |-> c, ret |-> None, raised |-> TRUE, calls |-> 1]
        ELSE [cache |-> [c EXCEPT ![0] = <<TRUE, addr, miss.value>>],
              ret |-> miss.value, raised |-> FALSE, calls |-> 1]

load(c, sz, addr, miss) ==
    LET index == addr % sz
    IN  IF c[index][1] /\ c[index][2] = addr
        THEN [cache |-> c, ret |-> c[index][3], raised |-> FALSE, calls |-> 0]
        ELSE IF miss.raised
        THEN [cache |-> c, ret |-> None, raised |-> TRUE, calls |-> 1]
        ELSE [cache |-> [c EXCEPT ![index] = <<TRUE, addr, miss.value>>],
              ret |-> miss.value, raised |-> FALSE, calls |-> 1]

\* The slot an address maps to, and whether a load of it would hit.
SlotOf(addr) == addr % size
IsHit(c, addr) == c[addr % size][1] /\ c[addr % size][2] = addr

(***************************************************************************)
(* Spec: a ReadCache and the calls made on it.                             *)
(***************************************************************************)
NoOp == [op |-> "new", addr |-> None, calls |-> 0, raised |-> FALSE,
         ret |-> None, old |-> None]
NoPrev == <<"new", None, FALSE>>
NoDec == None
NoApp == None

Summary(l) == <<l.op, l.addr, l.raised>>

\* ReadCache.__init__(size)
Init ==
    /\ size \in 1 .. MaxSize
    /\ cache = reset(size)
    /\ ceiba = FALSE
    /\ last = NoOp
    /\ prev = NoPrev
    /\ dec = NoDec
    /\ app = NoApp

Load(addr, miss) ==
    LET r == load(cache, size, addr, miss)
    IN  /\ cache' = r.cache
        /\ last' = [op |-> "load", addr |-> addr, calls |-> r.calls,
                    raised |-> r.raised, ret |-> r.ret,
                    old |-> cache[addr % size]]
        /\ prev' = Summary(last)
        /\ UNCHANGED <<size, ceiba, dec, app>>

Invalidate(addr) ==
    /\ cache' = invalidate(cache, size, addr)
    /\ last' = [op |-> "invalidate", addr |-> addr, calls |-> 0,
                raised |-> FALSE, ret |-> None, old |-> cache[addr % size]]
    /\ prev' = Summary(last)
    /\ UNCHANGED <<size, ceiba, dec, app>>

Reset ==
    /\ cache' = reset(size)
    /\ last' = [op |-> "reset", addr |-> None, calls |-> 0,
                raised |-> FALSE, ret |-> None, old |-> None]
    /\ prev' = Summary(last)
    /\ UNCHANGED <<size, ceiba, dec, app>>

Next ==
    \/ \E addr \in Addrs, miss \in MissOutcomes : Load(addr, miss)
    \/ \E addr \in Addrs : Invalidate(addr)
    \/ Reset

Spec == Init /\ [][Next]_vars


(***************************************************************************)
(* class NolCrawler                                                        *)
(***************************************************************************)
\* NolCrawler.items_per_page
items_per_page == 15

\* Pages 0 .. MaxPage of the listing are asked for.
MaxPage == 1
\* get_course and flush_cache are also called with the indexes
\* -MaxNeg .. -1.
MaxNeg == 2
\* NolCrawler(cache_size = 1 .. MaxCacheSize)
MaxCacheSize == 2
\* A served page has 0 rows, items_per_page rows, MaxMissing rows fewer
\* or MaxExtra rows more.
MaxMissing == 3
MaxExtra == 1

RowCounts == {0, items_per_page - MaxMissing, items_per_page,
              items_per_page + MaxExtra}
\* The remote listing changes: a page is served as it was before the change
\* or as it is after it.
Versions == {"before", "after"}
\* The row of a page on which make_course may raise (0: on none).
BadRows == {0, 2}

\* The indexes the calls are made with: the negative ones, and on every page
\* the first and the last record and the two around the end of a short page.
Offsets == {0, items_per_page - MaxMissing - 1, items_per_page - MaxMissing,
            items_per_page - 1}
Indexes == ((-MaxNeg) .. (-1))
           \cup {a * items_per_page + o : a \in 0 .. MaxPage, o \in Offsets}
\* Every index of the pages 0 .. MaxPage + 1, and as many negative ones.
AllIndexes == (-(MaxPage + 2) * items_per_page)
              .. ((MaxPage + 2) * items_per_page - 1)

\* int(a / b) for b > 0: Python's true division, then truncation towards 0.
\* The quotient is a double: it is exact for the indexes of the model, and
\* for every index a listing has (below 15 * 2^50 the rounding of a / 15
\* never reaches the next integer).
IntDiv(a, b) == IF a >= 0 THEN a \div b ELSE -((-a) \div b)

\* NolCrawler.get_cache_addr
get_cache_addr_next_page(index) == IntDiv(index, items_per_page) + 1

get_cache_addr(index) == IntDiv(index, items_per_page)

\* What the remote side answers to one page request, and to the CEIBA
\* probes of that page's rows:
\*   http_error  the listing request ends with a status other than 200
\*   no_table    a document without any table, so without rows
\*   rows        a document whose table 4 has `rows` rows after the header;
\*               the first `links` of them carry a CEIBA link, and a probe
\*               of such a link ends as `probe` says: a 302 to a known URL
\*               (redirect), a 404 or 200 (not_found), anything else
\*               (error); row `bad`, if not 0, is one make_course raises on
\*               before it gets to the link (a cell it cannot read, a
\*               schedule text read_time_clsrom rejects).
Response(k, r, v, l, p, b) ==
    [kind |-> k, rows |-> r, ver |-> v, links |-> l, probe |-> p, bad |-> b]

\* The answers a page is built from.
Served ==
    {Response("rows", r, v, l, p, 0) :
        r \in RowCounts, v \in Versions, l \in {0, 1},
        p \in {"redirect", "not_found"}}
\* The answers get_page raises on: no page, or a page with a row that
\* make_course raises on or with a link whose probe, when make_course
\* makes it, fails.  What the rows hold does not show then, so one full
\* page stands for all of them.
Broken ==
    {Response(k, 0, "before", 0, "redirect", 0) :
        k \in {"http_error", "no_table"}}
    \cup {r \in {Response("rows", items_per_page, "before", l, p, b) :
                    l \in {0, 1}, p \in {"redirect", "error"},
                    b \in BadRows} :
            r.bad # 0 \/ r.probe = "error"}

\* Only a link is probed: without links the probe's outcome says nothing.
Responses ==
    {r \in Served \cup Broken :
        /\ r.links <= r.rows
        /\ r.links = 0 => r.probe = "redirect"}

\* The record make_course builds from row k of the page that starts at
\* record startrec: the row's place in the listing and the version served
\* stand for the cells' text, PRIVATE____ceiba is the id the probe found
\* (a string, or None).
Course(startrec, k, resp, ceibaOn) ==
    [pos |-> startrec + k - 1,
     ver |-> resp.ver,
     PRIVATE____ceiba |->
        IF ceibaOn /\ k <= resp.links /\ resp.probe = "redirect"
        THEN ToString(startrec + k - 1)
        ELSE None]

NotFound == [not_found |-> TRUE]

\* Whether make_course probes the CEIBA link of row k, and whether it
\* raises on row k.
Probes(k, resp, ceibaOn) == ceibaOn /\ k <= resp.links /\ resp.bad # k
RowRaises(k, resp, ceibaOn) ==
    \/ resp.bad = k
    \/ Probes(k, resp, ceibaOn) /\ resp.probe = "error"

\* [x] * n of Python: nothing when n <= 0.
Repeat(x, n) == [i \in 1 .. n |-> x]

\* get_page that gives up at the row make_course raises on and returns the
\* rows before it as the page.
get_page_keeps_rows_before_failure(index, resp, ceibaOn) ==
    LET page_number == IntDiv(index, items_per_page)
        page_startrec == page_number * items_per_page
        raising == {k \in 1 .. resp.rows : RowRaises(k, resp, ceibaOn)}
        firstbad == IF raising = {} THEN 0
                    ELSE CHOOSE k \in raising : \A j \in raising : k <= j
        done == IF firstbad = 0 THEN resp.rows ELSE firstbad
        kept == IF firstbad = 0 THEN resp.rows ELSE firstbad - 1
        probes == Cardinality({k \in 1 .. done : Probes(k, resp, ceibaOn)})
        courses == [k \in 1 .. kept |->
                        Course(page_startrec, k, resp, ceibaOn)]
        missing_count == items_per_page - Len(courses)
    IN  IF resp.kind \in {"http_error", "no_table"}
        THEN [raised |-> TRUE, value |-> None, startrec |-> page_startrec,
              fetches |-> 1, probes |-> 0, failed_row |-> 0]
        ELSE [raised |-> FALSE,
              value |-> courses \o Repeat(NotFound, missing_count),
              startrec |-> page_startrec, fetches |-> 1, probes |-> probes,
              failed_row |-> firstbad]

\* get_course.get_page(index): what the call returns or that it raises,
\* with the listing requests and CEIBA probes it made, and the row
\* make_course raised on (0 when it raised on none).
get_page(index, resp, ceibaOn) ==
    LET page_number == IntDiv(index, items_per_page)
        page_startrec == page_number * items_per_page
        raising == {k \in 1 .. resp.rows : RowRaises(k, resp, ceibaOn)}
        firstbad == IF raising = {} THEN 0
                    ELSE CHOOSE k \in raising : \A j \in raising : k <= j
        done == IF firstbad = 0 THEN resp.rows ELSE firstbad
        probes == Cardinality({k \in 1 .. done : Probes(k, resp, ceibaOn)})
        courses == [k \in 1 .. resp.rows |->
                        Course(page_startrec, k, resp, ceibaOn)]
        missing_count == items_per_page - Len(courses)
    IN  IF resp.kind = "http_error"
        THEN [raised |-> TRUE, value |-> None, startrec |-> page_startrec,
              fetches |-> 1, probes |-> 0, failed_row |-> 0]
        ELSE IF resp.kind = "no_table"
        THEN [raised |-> TRUE, value |-> None, startrec |-> page_startrec,
              fetches |-> 1, probes |-> 0, failed_row |-> 0]
        ELSE IF firstbad # 0
        THEN [raised |-> TRUE, value |-> None, startrec |-> page_startrec,
              fetches |-> 1, probes |-> probes, failed_row |-> firstbad]
        ELSE [raised |-> FALSE,
              value |-> courses \o Repeat(NotFound, missing_count),
              startrec |-> page_startrec, fetches |-> 1, probes |-> probes,
              failed_row |-> 0]

\* NolCrawler.get_course(index): the cache afterwards and what the call
\* did.  lookup is the cache address it loaded, loader how the call of
\* get_page ended, startrec the startrec of the listing request it made
\* (None when it made none), failed_row the row make_course raised on (0
\* when it raised on none).
get_course(c, sz, index, resp, ceibaOn) ==
    IF index < 0
    THEN [cache |-> c, ret |-> None, raised |-> FALSE, calls |-> 0,
          loader |-> "not_called", lookup |-> None, startrec |-> None,
          fetches |-> 0, probes |-> 0, failed_row |-> 0]
    ELSE
        LET p == get_page(index, resp, ceibaOn)
            r == load(c, sz, get_cache_addr(index), p)
        IN  [cache |-> r.cache,
             ret |-> IF r.raised THEN None
                     ELSE r.ret[(index % items_per_page) + 1],
             raised |-> r.raised,
             calls |-> r.calls,
             loader |-> IF r.calls = 0 THEN "not_called"
                        ELSE IF p.raised THEN "raised" ELSE "returned",
             lookup |-> get_cache_addr(index),
             startrec |-> IF r.calls = 0 THEN None ELSE p.startrec,
             fetches |-> IF r.calls = 0 THEN 0 ELSE p.fetches,
             probes |-> IF r.calls = 0 THEN 0 ELSE p.probes,
             failed_row |-> IF r.calls = 0 THEN 0 ELSE p.failed_row]

\* NolCrawler.flush_cache(index)
flush_cache(c, sz, index) == invalidate(c, sz, get_cache_addr(index))

\* NolCrawler.flush_cache_all()
flush_cache_all(sz) == reset(sz)

(***************************************************************************)
(* CrawlerSpec: a NolCrawler and the calls made on it.                     *)
(***************************************************************************)
NewCrawler == [op |-> "new", index |-> None, lookup |-> None,
               startrec |-> None, calls |-> 0, loader |-> "not_called",
               fetches |-> 0, probes |-> 0, failed_row |-> 0,
               raised |-> FALSE, ret |-> None, old |-> <<FALSE, None>>,
               repeat |-> "no"]

\* NolCrawler.__init__(semester, ceiba, debug, cache_size)
CrawlerInit ==
    /\ size \in 1 .. MaxCacheSize
    /\ cache = reset(size)
    /\ ceiba \in BOOLEAN
    /\ last = NewCrawler
    /\ prev = NoPrev
    /\ dec = NoDec
    /\ app = NoApp

\* (valid, addr) of the slot an address maps to.
HeldAt(c, sz, addr) == <<c[addr % sz][1], c[addr % sz][2]>>

\* Whether this call repeats the call before it, and how that one ended.
RepeatOf(op, index) ==
    IF last.op = op /\ last.index = index
    THEN IF last.raised THEN "after_raise" ELSE "after_return"
    ELSE "no"

GetCourse(index, resp) ==
    LET r == get_course(cache, size, index, resp, ceiba)
    IN  /\ cache' = r.cache
        /\ last' = [op |-> "get_course", index |-> index,
                    lookup |-> r.lookup, startrec |-> r.startrec,
                    calls |-> r.calls, loader |-> r.loader,
                    fetches |-> r.fetches,
                    probes |-> r.probes, failed_row |-> r.failed_row,
                    raised |-> r.raised,
                    ret |-> r.ret,
                    old |-> IF index < 0 THEN <<FALSE, None>>
                            ELSE HeldAt(cache, size, get_cache_addr(index)),
                    repeat |-> RepeatOf("get_course", index)]
        /\ UNCHANGED <<size, ceiba, prev, dec, app>>

FlushCache(index) ==
    /\ cache' = flush_cache(cache, size, index)
    /\ last' = [NewCrawler EXCEPT
                    !.op = "flush_cache", !.index = index,
                    !.lookup = get_cache_addr(index),
                    !.old = HeldAt(cache, size, get_cache_addr(index)),
                    !.repeat = RepeatOf("flush_cache", index)]
    /\ UNCHANGED <<size, ceiba, prev, dec, app>>

FlushCacheAll ==
    /\ cache' = flush_cache_all(size)
    /\ last' = [NewCrawler EXCEPT
                    !.op = "flush_cache_all",
                    !.repeat = RepeatOf("flush_cache_all", None)]
    /\ UNCHANGED <<size, ceiba, prev, dec, app>>

\* The remote side answers when it is asked: a call that asks nothing (a
\* negative index, a page the cache holds) goes with the one answer Unasked.
Unasked == Response("http_error", 0, "before", 0, "redirect", 0)
Answers(index) ==
    IF index >= 0 /\ ~IsHit(cache, get_cache_addr(index))
    THEN Responses
    ELSE {Unasked}

CrawlerNext ==
    \/ \E index \in Indexes :
            \E resp \in Answers(index) : GetCourse(index, resp)
    \/ \E index \in Indexes : FlushCache(index)
    \/ FlushCacheAll

CrawlerSpec == CrawlerInit /\ [][CrawlerNext]_vars

(***************************************************************************)
(* get_course.make_course.read_time_clsrom                                 *)
(*                                                                         *)
(* A character is a one-character string; the characters outside ASCII are *)
(* written as their code points ("U+4E00").  The text read, clsrom and     *)
(* unexpected_clsrom are sequences of characters; day, uncommitted_time    *)
(* and the tokens of the time list are strings ("" is the empty string).   *)
(* Indexes into time_list are 0-based, as in the code.                     *)
(***************************************************************************)
Mon == "U+4E00"
Tue == "U+4E8C"
Wed == "U+4E09"
Thu == "U+56DB"
Fri == "U+4E94"
Sat == "U+516D"
Sun == "U+65E5"
\* '一二三四五六日'
Days == {Mon, Tue, Wed, Thu, Fri, Sat, Sun}
\* '第' and '週', around the weeks an entry applies to
WeekOpen == "U+7B2C"
WeekClose == "U+9031"
\* '普', as in the classroom 普101
Pu == "U+666E"
\* '請洽系所辦'
SeeOffice == <<"U+8ACB", "U+6D3D", "U+7CFB", "U+6240", "U+8FA6">>
\* '多出資訊'
ExtraInfo == <<"U+591A", "U+51FA", "U+8CC7", "U+8A0A">>

\* str.isspace: the characters Python counts as white space.  The control
\* characters without an escape of their own are written as code points,
\* like the characters outside ASCII.
IsSpace(char) ==
    char \in {"\t", "\n", "U+000B", "\f", "\r",
              "U+001C", "U+001D", "U+001E", "U+001F", " ",
              "U+0085", "U+00A0", "U+1680",
              "U+2000", "U+2001", "U+2002", "U+2003", "U+2004", "U+2005",
              "U+2006", "U+2007", "U+2008", "U+2009", "U+200A",
              "U+2028", "U+2029", "U+202F", "U+205F", "U+3000"}

Digits == {"0", "1", "2", "3", "4", "5", "6", "7", "8", "9"}

\* time_list, from 104 on and before
time_list_new == <<"0", "1", "2", "3", "4", "5", "6", "7", "8", "9", "10",
                   "A", "B", "C", "D">>
\* The slots before 104 with "@" after the digits instead of after "4".
time_list_digits_first ==
    <<"0", "1", "2", "3", "4", "5", "6", "7", "8", "9", "@", "A", "B", "C",
      "D">>
time_list_old == <<"0", "1", "2", "3", "4", "@", "5", "6", "7", "8", "9",
                   "A", "B", "C", "D">>

Elems(seq) == {seq[k] : k \in 1 .. Len(seq)}

\* list.index(x), for an x the list holds
IndexOf(list, x) ==
    (CHOOSE k \in 1 .. Len(list) :
        list[k] = x /\ \A j \in 1 .. (k - 1) : list[j] # x) - 1

\* list[a:b], for 0 <= a
Slice(list, a, b) ==
    SubSeq(list, a + 1, IF b > Len(list) THEN Len(list) ELSE b)

\* The locals of read_time_clsrom when the loop begins.  err is the
\* exception raised, if one was.
Locals == [state |-> 3, brackets |-> 0, time_dash |-> FALSE, day |-> "",
           clsrom |-> <<>>, unexpected_clsrom |-> <<>>, time |-> <<>>,
           uncommitted_time |-> "", result |-> <<>>, err |-> None]

Raise(st, e) == [st EXCEPT !.err = e]

\* The time branch of the loop body for a semester before 104.
time_old(st, char) ==
    IF char = ","
    THEN st
    ELSE IF char = "-"
    THEN IF st.uncommitted_time = ""
         THEN [st EXCEPT !.time_dash = TRUE]
         ELSE Raise([st EXCEPT !.time_dash = TRUE], "AssertionError")
    ELSE IF char = "*"
    THEN IF st.uncommitted_time = ""
         THEN [st EXCEPT !.time = Append(@, "*")]
         ELSE Raise([st EXCEPT !.time = Append(@, "*")], "AssertionError")
    ELSE IF char = "("
    THEN [st EXCEPT !.brackets = @ + 1, !.state = @ + 1,
                    !.uncommitted_time = ""]
    ELSE IF char \in Elems(time_list_old)
    THEN IF Len(st.time) > 0
         THEN IF st.time[Len(st.time)] \notin Elems(time_list_old)
              THEN Raise(st, "ValueError")
              ELSE
              LET time_prev == IndexOf(time_list_old, st.time[Len(st.time)])
              IN  IF st.uncommitted_time # "" /\ st.uncommitted_time \o char # "10"
                  THEN Raise(st, "AssertionError")
                  ELSE
                  LET time_this == IF st.uncommitted_time = ""
                                   THEN IndexOf(time_list_old, char)
                                   ELSE IndexOf(time_list_old, "A")
                      st1 == [st EXCEPT !.uncommitted_time = ""]
                  IN  IF time_this <= time_prev /\ char = "1"
                      THEN [st1 EXCEPT !.uncommitted_time = @ \o char]
                      ELSE IF st1.time_dash
                      THEN IF Len(st1.time) = 1
                           THEN [st1 EXCEPT
                                    !.time = Slice(time_list_old, time_prev,
                                                   time_this + 1)]
                           ELSE Raise(st1, "AssertionError")
                      ELSE [st1 EXCEPT
                                !.time = Append(@, time_list_old[time_this + 1])]
         ELSE [st EXCEPT !.time = Append(@, char)]
    ELSE Raise(st, "AssertionError")

\* The time branch of the loop body for a semester from 104 on.
time_new(st, char) ==
    IF char = "," \/ char = "("
    THEN IF st.uncommitted_time # ""
              /\ st.uncommitted_time \notin Elems(time_list_new)
         THEN Raise(st, "AssertionError")
         ELSE
         LET st1 == IF st.uncommitted_time # ""
                    THEN [st EXCEPT !.time = Append(@, st.uncommitted_time),
                                    !.uncommitted_time = ""]
                    ELSE st
         IN  IF char = "("
             THEN [st1 EXCEPT !.brackets = @ + 1, !.state = @ + 1]
             ELSE st1
    ELSE [st EXCEPT !.uncommitted_time = @ \o char]

\* The classroom branch without line 298: the times stay when an entry is
\* pushed.
clsrom_char_keeps_time(st, char) ==
    LET brackets == IF char = "(" THEN st.brackets + 1
                    ELSE IF char = ")" THEN st.brackets - 1
                    ELSE st.brackets
        st1 == [st EXCEPT !.brackets = brackets]
    IN  IF brackets > 0
        THEN [st1 EXCEPT !.clsrom = Append(@, char)]
        ELSE IF brackets = 0
        THEN [st1 EXCEPT
                !.result = Append(@, <<st.day, st.time, st.clsrom>>),
                !.day = "", !.clsrom = <<>>,
                !.state = @ + 1]
        ELSE Raise(st1, "AssertionError")

\* The classroom branch of the loop body.
clsrom_char(st, char) ==
    LET brackets == IF char = "(" THEN st.brackets + 1
                    ELSE IF char = ")" THEN st.brackets - 1
                    ELSE st.brackets
        st1 == [st EXCEPT !.brackets = brackets]
    IN  IF brackets > 0
        THEN [st1 EXCEPT !.clsrom = Append(@, char)]
        ELSE IF brackets = 0
        THEN [st1 EXCEPT
                !.result = Append(@, <<st.day, st.time, st.clsrom>>),
                !.day = "", !.clsrom = <<>>, !.time = <<>>,
                !.state = @ + 1]
        ELSE Raise(st1, "AssertionError")

\* The branch of the loop body that keeps what stands in brackets before
\* any day.
unexpected_char(st, char) ==
    IF char = "("
    THEN [st EXCEPT
            !.unexpected_clsrom = IF st.brackets > 0 THEN Append(@, char) ELSE @,
            !.brackets = @ + 1]
    ELSE IF char = ")"
    THEN [st EXCEPT
            !.brackets = @ - 1,
            !.unexpected_clsrom = IF st.brackets - 1 > 0 THEN Append(@, char)
                                  ELSE @]
    ELSE [st EXCEPT
            !.unexpected_clsrom = IF st.brackets > 0 THEN Append(@, char) ELSE @]

\* The loop body with line 222 not asking for brackets == 0: bracketed
\* text before a day is left without its closing parenthesis.
read_char_leaves_brackets(st, char, is_104_or_later) ==
    IF IsSpace(char)
    THEN st
    ELSE
    LET st0 == IF st.state = 3 /\ char # "("
               THEN [st EXCEPT !.state = 0]
               ELSE st
    IN  IF st0.state = 0
        THEN IF char \in Days
             THEN [st0 EXCEPT !.day = char, !.state = @ + 1]
             ELSE Raise(st0, "AssertionError")
        ELSE IF st0.state = 1
        THEN IF is_104_or_later THEN time_new(st0, char)
             ELSE time_old(st0, char)
        ELSE IF st0.state = 2
        THEN clsrom_char(st0, char)
        ELSE IF st0.state = 3
        THEN unexpected_char(st0, char)
        ELSE Raise(st0, "AssertionError")

\* One pass of the loop body: the locals after it has read char.
read_char(st, char, is_104_or_later) ==
    IF IsSpace(char)
    THEN st
    ELSE
    LET st0 == IF st.brackets = 0 /\ st.state = 3 /\ char # "("
               THEN [st EXCEPT !.state = 0]
               ELSE st
    IN  IF st0.state = 0
        THEN IF char \in Days
             THEN [st0 EXCEPT !.day = char, !.state = @ + 1]
             ELSE Raise(st0, "AssertionError")
        ELSE IF st0.state = 1
        THEN IF is_104_or_later THEN time_new(st0, char)
             ELSE time_old(st0, char)
        ELSE IF st0.state = 2
        THEN clsrom_char(st0, char)
        ELSE IF st0.state = 3
        THEN unexpected_char(st0, char)
        ELSE Raise(st0, "AssertionError")

\* The lines before the loop: the text without its weeks prefix, or the
\* assertion that fails on it.
strip_weeks(text) ==
    IF Len(text) > 0 /\ text[1] = WeekOpen
    THEN LET found == {k \in 1 .. Len(text) : text[k] = WeekClose}
             \* text.find: the 0-based place of the first one, or -1
             prefix_end == IF found = {} THEN -1
                           ELSE (CHOOSE k \in found :
                                    \A j \in found : k <= j) - 1
         IN  IF prefix_end > 1
                /\ \A k \in 2 .. prefix_end :
                        text[k] \in Digits \cup {" ", ","}
             THEN [err |-> None,
                   text |-> SubSeq(text, prefix_end + 2, Len(text))]
             ELSE [err |-> "AssertionError", text |-> text]
    ELSE [err |-> None, text |-> text]

\* finish without lines 317-319: no result for brackets left open.
finish_requires_balance(st) ==
    IF st.day = "" /\ st.time = <<>> /\ st.clsrom = <<>>
            /\ st.unexpected_clsrom # <<>> /\ Len(st.result) = 0
    THEN [err |-> None,
          ret |-> Append(st.result, <<"", "", st.unexpected_clsrom>>)]
    ELSE IF st.day = "" /\ st.time = <<>> /\ st.clsrom = <<>>
            /\ st.brackets = 0
    THEN [err |-> None, ret |-> st.result]
    ELSE [err |-> "AssertionError", ret |-> None]

\* finish with line 326 asking for one classroom "請洽系所辦", not all.
finish_some_office(st) ==
    IF Len(st.clsrom) > 0 /\ st.clsrom[Len(st.clsrom)] = ")"
        /\ st.brackets > 0
    THEN [err |-> None,
          ret |-> Append(st.result, <<st.day, st.time, st.clsrom>>)]
    ELSE IF st.day = "" /\ st.time = <<>> /\ st.clsrom = <<>>
            /\ st.unexpected_clsrom # <<>> /\ Len(st.result) = 0
    THEN [err |-> None,
          ret |-> Append(st.result, <<"", "", st.unexpected_clsrom>>)]
    ELSE
    LET result ==
            IF (\E k \in 1 .. Len(st.result) : st.result[k][3] = SeeOffice)
                /\ st.unexpected_clsrom # <<>>
            THEN [k \in 1 .. Len(st.result) |->
                    <<st.result[k][1], st.result[k][2],
                      st.unexpected_clsrom>>]
            ELSE st.result
    IN  IF st.day = "" /\ st.time = <<>> /\ st.clsrom = <<>>
            /\ st.brackets = 0
        THEN [err |-> None, ret |-> result]
        ELSE [err |-> "AssertionError", ret |-> None]

\* finish without lines 321-324: no entry made from the side buffer alone.
finish_no_lone_buffer(st) ==
    IF Len(st.clsrom) > 0 /\ st.clsrom[Len(st.clsrom)] = ")"
        /\ st.brackets > 0
    THEN [err |-> None,
          ret |-> Append(st.result, <<st.day, st.time, st.clsrom>>)]
    ELSE
    LET result ==
            IF (\A k \in 1 .. Len(st.result) : st.result[k][3] = SeeOffice)
                /\ st.unexpected_clsrom # <<>>
            THEN [k \in 1 .. Len(st.result) |->
                    <<st.result[k][1], st.result[k][2],
                      st.unexpected_clsrom>>]
            ELSE st.result
    IN  IF st.day = "" /\ st.time = <<>> /\ st.clsrom = <<>>
            /\ st.brackets = 0
        THEN [err |-> None, ret |-> result]
        ELSE [err |-> "AssertionError", ret |-> None]

\* The lines after the loop: what read_time_clsrom returns, or the
\* assertion that fails.
finish(st) ==
    IF Len(st.clsrom) > 0 /\ st.clsrom[Len(st.clsrom)] = ")"
        /\ st.brackets > 0
    THEN [err |-> None,
          ret |-> Append(st.result, <<st.day, st.time, st.clsrom>>)]
    ELSE IF st.day = "" /\ st.time = <<>> /\ st.clsrom = <<>>
            /\ st.unexpected_clsrom # <<>> /\ Len(st.result) = 0
    THEN [err |-> None,
          ret |-> Append(st.result, <<"", "", st.unexpected_clsrom>>)]
    ELSE
    LET result ==
            IF (\A k \in 1 .. Len(st.result) : st.result[k][3] = SeeOffice)
                /\ st.unexpected_clsrom # <<>>
            THEN [k \in 1 .. Len(st.result) |->
                    <<st.result[k][1], st.result[k][2],
                      st.unexpected_clsrom>>]
            ELSE st.result
    IN  IF st.day = "" /\ st.time = <<>> /\ st.clsrom = <<>>
            /\ st.brackets = 0
        THEN [err |-> None, ret |-> result]
        ELSE [err |-> "AssertionError", ret |-> None]

(***************************************************************************)
(* DecoderSpec: one call of read_time_clsrom, a character at a time.       *)
(***************************************************************************)
\* The longest run of time characters after a dash range, and in a second
\* entry.
MaxAfter == 2
\* All texts of up to MaxLen characters of ShortAlphabet are read.
MaxLen == 3

\* "二1-4(普101)三5@(普102)"
DashExample == <<Tue, "1", "-", "4", "(", Pu, "1", "0", "1", ")",
                 Wed, "5", "@", "(", Pu, "1", "0", "2", ")">>
\* "一1234(普201)"
PlainExample == <<Mon, "1", "2", "3", "4", "(", Pu, "2", "0", "1", ")">>
\* "(多出資訊)一12(請洽系所辦)"
ExtraExample == <<"(">> \o ExtraInfo \o <<")", Mon, "1", "2", "(">>
                \o SeeOffice \o <<")">>
\* "第2,3 週一1,2,10(普(1))"
WeeksExample == <<WeekOpen, "2", ",", "3", " ", WeekClose, Mon, "1", ",",
                  "2", ",", "1", "0", "(", Pu, "(", "1", ")", ")">>

\* "二3(普)一12(普(1))"
NestedExample == <<Tue, "3", "(", Pu, ")", Mon, "1", "2", "(", Pu, "(", "1",
                   ")", ")">>

\* "一1\n(普)\r\n二 2\t(普)", with U+3000 before the second day
LinesExample == <<Mon, "1", "\n", "(", Pu, ")", "\r", "\n", "U+3000",
                  Tue, " ", "2", "\t", "(", Pu, ")">>

Examples == {DashExample, PlainExample, ExtraExample, WeeksExample,
             NestedExample, LinesExample}

\* The sequences of 0 to n elements of S.
RECURSIVE SeqsUpTo(_, _)
SeqsUpTo(S, n) ==
    IF n = 0 THEN {<<>>}
    ELSE LET shorter == SeqsUpTo(S, n - 1)
         IN  shorter \cup {Append(t, x) : t \in shorter, x \in S}

\* A dash range, time characters after it, a classroom, and possibly a
\* second entry.
AfterChars == {"5", "@", "6"}
DashTexts ==
    {<<Tue, x, "-", y>> \o rest \o <<"(", Pu, ")">> \o second :
        x \in {"1", "4"}, y \in {"4", "5"},
        rest \in SeqsUpTo(AfterChars, MaxAfter),
        second \in {<<>>} \cup
            {<<Wed>> \o toks \o <<"(", Pu, ")">> :
                toks \in SeqsUpTo(AfterChars, MaxAfter) \ {<<>>}}}

\* The texts that break off somewhere in NestedExample.
Prefixes(text) == {SubSeq(text, 1, n) : n \in 0 .. Len(text)}
OpenTexts == Prefixes(NestedExample)

\* Two entries whose classrooms are "請洽系所辦" or not, with or without
\* "(多出資訊)" before them and "(普)" after them.
OfficeTexts ==
    {pre \o <<Mon, "1", "(">> \o r1 \o <<")", Tue, "2", "(">> \o r2
         \o <<")">> \o post :
        pre \in {<<>>, <<"(">> \o ExtraInfo \o <<")">>},
        r1 \in {SeeOffice, <<Pu>>}, r2 \in {SeeOffice, <<Pu>>},
        post \in {<<>>, <<"(", Pu, ")">>}}

\* "一X-Y(普)" for the slots X and Y before 104, Y also written "10".
OldSlots == {"0", "1", "2", "3", "4", "@", "5", "6", "7", "8", "9", "A",
             "B", "C", "D"}
RangeText(x, y) == <<Mon, x, "-">> \o y \o <<"(", Pu, ")">>
RangeTexts ==
    {RangeText(x, y) : x \in OldSlots,
                       y \in {<<c>> : c \in OldSlots} \cup {<<"1", "0">>}}

\* "一1(普)", one more character, and possibly more text.
AfterEntryChars == {Tue, "1", "-", "*", ",", "(", ")", " ", Pu}
AfterEntryTexts ==
    {<<Mon, "1", "(", Pu, ")", c>> \o tail :
        c \in AfterEntryChars,
        tail \in {<<>>, <<"2", "(", Pu, ")">>, <<Pu, ")">>,
                  <<Pu, ")", Tue, "2", "(", Pu, ")">>}}

\* "一91" or "一11", where the second 1 may begin "10", one more character,
\* and possibly more text.
PendingChars == {Mon, "0", "1", "2", "-", "*", ",", "(", ")", " ", Pu}
PendingTexts ==
    {<<Mon, x, "1", c>> \o tail :
        x \in {"1", "9"}, c \in PendingChars,
        tail \in {<<>>, <<Pu, ")">>, <<"(", Pu, ")">>}}

ShortAlphabet == {Mon, "1", "0", "-", "*", ",", "(", ")", " ", Pu}
ShortTexts == SeqsUpTo(ShortAlphabet, MaxLen)

Texts == Examples \cup DashTexts \cup OpenTexts \cup OfficeTexts
            \cup RangeTexts \cup AfterEntryTexts \cup PendingTexts
            \cup ShortTexts

\* The semesters' years: one before 104, and 104.
SemYears == {103, 104}

DecoderInit ==
    /\ dec \in [pc : {"start"}, sem_year : SemYears, input : Texts,
                text : {<<>>}, i : {1}, st : {Locals}, ret : {None}]
    /\ cache = <<>>
    /\ size = 0
    /\ ceiba = FALSE
    /\ last = NoOp
    /\ prev = NoPrev
    /\ app = NoApp

\* Lines 196-218: the prefix is taken off and the locals are set.
Start ==
    /\ dec.pc = "start"
    /\ LET s == strip_weeks(dec.input)
       IN  dec' = [dec EXCEPT
                    !.pc = IF s.err = None THEN "loop" ELSE "raised",
                    !.text = s.text,
                    !.st = Raise(Locals, s.err)]
    /\ UNCHANGED <<cache, size, ceiba, last, prev, app>>

\* Lines 219-315: the loop body reads the next character.
Step ==
    /\ dec.pc = "loop"
    /\ dec.i <= Len(dec.text)
    /\ LET st == read_char(dec.st, dec.text[dec.i], dec.sem_year >= 104)
       IN  dec' = [dec EXCEPT
                    !.pc = IF st.err = None THEN "loop" ELSE "raised",
                    !.i = @ + 1,
                    !.st = st]
    /\ UNCHANGED <<cache, size, ceiba, last, prev, app>>

\* Lines 316-331: the text is read; the result is returned, or an assertion
\* fails.
Finish ==
    /\ dec.pc = "loop"
    /\ dec.i > Len(dec.text)
    /\ LET f == finish(dec.st)
       IN  dec' = [dec EXCEPT
                    !.pc = IF f.err = None THEN "returned" ELSE "raised",
                    !.st = Raise(dec.st, f.err),
                    !.ret = f.ret]
    /\ UNCHANGED <<cache, size, ceiba, last, prev, app>>

DecoderNext == Start \/ Step \/ Finish

DecoderSpec == DecoderInit /\ [][DecoderNext]_vars

(***************************************************************************)
(* AppSpec: the main program of nol_app from line 28 on: a NolCrawler      *)
(* with its default cache and the loop over the indexes.                   *)
(***************************************************************************)
\* The largest number of courses get_course_count answers.
MaxCount == 16

\* cache_size of NolCrawler.__init__ when it is not given.
cache_size == 5

Counts == 0 .. MaxCount
StartIndexes == (-MaxNeg) .. (MaxCount + 1)

\* What the remote side answers the program: a status other than 200, a
\* document without a table, a page with a row make_course raises on, and
\* pages of every number of rows (none, a short page, a full one, one row
\* too many), without CEIBA links.
AppAnswers == {r \in Responses : r.ver = "before" /\ r.links = 0}

\* Lines 25-29: the arguments are read, the crawler is made and the
\* number of courses is asked for.  asked and outcome tell of the last
\* call of get_course: the index it was given and how it ended.
AppInit ==
    /\ size = cache_size
    /\ cache = reset(cache_size)
    /\ ceiba = TRUE
    /\ last = NewCrawler
    /\ prev = NoPrev
    /\ dec = NoDec
    /\ app \in [pc : {"count"}, count : Counts, start_index : StartIndexes,
                 index : {0}, first_error : {TRUE}, emitted : {<<>>},
                 asked : {0}, outcome : {"not_called"}]

\* Lines 31-33: without courses the program ends with status 1; line 35
\* begins the loop at start_index.
CheckCount ==
    /\ app.pc = "count"
    /\ app' = [app EXCEPT
                !.pc = IF app.count = 0 THEN "exit" ELSE "for",
                !.index = app.start_index]
    /\ UNCHANGED <<cache, size, ceiba, last, prev, dec>>

\* Lines 35-38, 53-54: the loop takes its next index, or ends after the
\* last one.
ForNext ==
    /\ app.pc = "for"
    /\ app' = IF app.index < app.count
              THEN [app EXCEPT !.pc = "call", !.first_error = TRUE]
              ELSE [app EXCEPT !.pc = "done"]
    /\ UNCHANGED <<cache, size, ceiba, last, prev, dec>>

\* The answers to a call of the program: none is asked for when the call
\* asks nothing.
AppAnswersTo(index) ==
    IF index >= 0 /\ ~IsHit(cache, get_cache_addr(index))
    THEN AppAnswers
    ELSE {Unasked}

\* Lines 40-42: get_course(index) returns and the while loop is left.
GetCourseReturns ==
    /\ app.pc = "call"
    /\ \E resp \in AppAnswersTo(app.index) :
            LET r == get_course(cache, size, app.index, resp, ceiba)
            IN  /\ ~r.raised
                /\ cache' = r.cache
    /\ app' = [app EXCEPT !.pc = "print", !.asked = app.index,
                          !.outcome = "returned"]
    /\ UNCHANGED <<size, ceiba, last, prev, dec>>

\* Lines 40-41, 43-47: get_course(index) raises; the error is printed and
\* the while loop goes round.
GetCourseRaises ==
    /\ app.pc = "call"
    /\ \E resp \in AppAnswersTo(app.index) :
            LET r == get_course(cache, size, app.index, resp, ceiba)
            IN  /\ r.raised
                /\ cache' = r.cache
    /\ app' = [app EXCEPT !.first_error = FALSE, !.asked = app.index,
                          !.outcome = "raised"]
    /\ UNCHANGED <<size, ceiba, last, prev, dec>>

\* The key line 48 puts into the course.
IndexKey == ".__index__."

\* course.update({'.__index__.': index})
update(course, index) ==
    [k \in DOMAIN course \cup {IndexKey} |->
        IF k = IndexKey THEN index ELSE course[k]]

\* The placeholder get_page fills a short page with.
IsPlaceholder(course) == "not_found" \in DOMAIN course

\* The page a course of which is updated.  get_course returns the record
\* the cache holds, not a copy, so the cached page shows the key; the
\* placeholders of a page are one dict (line 409 of nol_lib.py), so all of
\* them show it when one of them is updated.
update_cached(courses, pos, index) ==
    [k \in DOMAIN courses |->
        IF \/ k = pos
           \/ IsPlaceholder(courses[pos]) /\ IsPlaceholder(courses[k])
        THEN update(courses[k], index)
        ELSE courses[k]]

\* The loop going on two indexes further after it has printed one.
PrintCourse_skips_index ==
    /\ app.pc = "print"
    /\ IF app.index < 0
       THEN /\ app' = [app EXCEPT !.pc = "crashed"]
            /\ UNCHANGED cache
       ELSE LET slot == get_cache_addr(app.index) % size
                pos == (app.index % items_per_page) + 1
                courses == update_cached(cache[slot][3], pos, app.index)
            IN  /\ cache' = [cache EXCEPT ![slot][3] = courses]
                /\ app' = [app EXCEPT
                            !.pc = "for",
                            !.emitted = Append(@, courses[pos][IndexKey]),
                            !.index = @ + 2]
    /\ UNCHANGED <<size, ceiba, last, prev, dec>>

\* Lines 48-52: the index is put into the course and the course is
\* printed.  The course is the record of the cached page.  For a negative
\* index the course is None (get_course, line 412 of nol_lib.py) and
\* course.update raises AttributeError, which nothing catches.
PrintCourse ==
    /\ app.pc = "print"
    /\ IF app.index < 0
       THEN /\ app' = [app EXCEPT !.pc = "crashed"]
            /\ UNCHANGED cache
       ELSE LET slot == get_cache_addr(app.index) % size
                pos == (app.index % items_per_page) + 1
                courses == update_cached(cache[slot][3], pos, app.index)
            IN  /\ cache' = [cache EXCEPT ![slot][3] = courses]
                /\ app' = [app EXCEPT
                            !.pc = "for",
                            !.emitted = Append(@, courses[pos][IndexKey]),
                            !.index = @ + 1]
    /\ UNCHANGED <<size, ceiba, last, prev, dec>>

AppNext ==
    \/ CheckCount
    \/ ForNext
    \/ GetCourseReturns
    \/ GetCourseRaises
    \/ PrintCourse

AppSpec == AppInit /\ [][AppNext]_vars

\* The program goes on when it can, and a get_course that is tried again
\* and again returns in the end.
AppFairSpec ==
    /\ AppSpec
    /\ WF_vars(CheckCount \/ ForNext \/ PrintCourse)
    /\ WF_vars(GetCourseReturns)

(***************************************************************************)
(* Claims about ReadCache, checked under Spec.                             *)
(* last.old is the slot (addr mod size) as the operation found it.         *)
(***************************************************************************)

\* C1: a load(address) issued while slot (address mod size) is valid and
\* stores exactly that address returns the stored value and does not call
\* the miss function.
C1_HitReturnsStored ==
    (last.op = "load" /\ last.old[1] /\ last.old[2] = last.addr)
        => /\ last.calls = 0
           /\ ~last.raised
           /\ last.ret = last.old[3]
           /\ cache[SlotOf(last.addr)] = last.old

C1_Witness ==
    /\ last.op = "load"
    /\ last.old[1]
    /\ last.old[2] = last.addr
    /\ last.calls = 0
    /\ last.ret \in Values

\* C2: a load(b) issued while slot (b mod size) is valid but stores another
\* address a calls the miss function (once) and, when that returns a value,
\* overwrites the slot with (valid, b, value), so that a load(a) would miss;
\* every other slot is as it was.
C2_DirectMapped ==
    [][ LET b == last'.addr
            s == b % size
        IN  (last'.op = "load" /\ cache[s][1] /\ cache[s][2] # b)
                => /\ last'.calls = 1
                   /\ ~last'.raised =>
                        /\ cache'[s] = <<TRUE, b, last'.ret>>
                        /\ ~IsHit(cache', cache[s][2])
                        /\ \A t \in 0 .. (size - 1) :
                                t # s => cache'[t] = cache[t] ]_vars

C2_Witness ==
    /\ last.op = "load"
    /\ last.old[1]
    /\ last.old[2] # last.addr
    /\ ~last.raised
    /\ cache[SlotOf(last.addr)] = <<TRUE, last.addr, last.ret>>
    /\ \E t \in 0 .. (size - 1) : t # SlotOf(last.addr) /\ cache[t][1]

\* C4: invalidate(a) immediately followed by load(a) calls the miss
\* function exactly once, whatever the slot held before the invalidate.
C4_InvalidateThenLoad ==
    (last.op = "load" /\ prev[1] = "invalidate" /\ prev[2] = last.addr)
        => last.calls = 1

C4_Witness ==
    /\ last.op = "load"
    /\ prev = <<"invalidate", last.addr, FALSE>>
    /\ last.calls = 1
    /\ last.old = EmptySlot

\* C5: invalidate(a) leaves the whole cache unchanged when slot
\* (a mod size) is invalid or holds another address; every address that
\* would hit before the call still hits, with no call of the miss function,
\* after it.
C5_InvalidateNoOp ==
    [][ (last'.op = "invalidate" /\ ~IsHit(cache, last'.addr))
            => /\ cache' = cache
               /\ \A b \in Addrs, miss \in MissOutcomes :
                    IsHit(cache, b) =>
                        /\ load(cache', size, b, miss).calls = 0
                        /\ load(cache', size, b, miss).ret
                                = cache[b % size][3] ]_vars

C5_Witness ==
    /\ last.op = "invalidate"
    /\ last.old[1]
    /\ last.old[2] # last.addr
    /\ cache[SlotOf(last.addr)] = last.old

\* C6: after reset every slot is invalid, and the load that follows a
\* reset calls the miss function, whatever its address.
C6_ResetInvalidatesAll ==
    /\ last.op = "reset" => \A s \in 0 .. (size - 1) : ~cache[s][1]
    /\ (last.op = "load" /\ prev[1] = "reset") => last.calls = 1

C6_Witness ==
    /\ last.op = "load"
    /\ prev[1] = "reset"
    /\ last.calls = 1
    /\ ~last.raised

(***************************************************************************)
(* Claims about NolCrawler, checked under CrawlerSpec.                     *)
(* last.old is (valid, addr) of the page's slot when the call began;       *)
(* last.repeat says whether the call before was the same call.             *)
(***************************************************************************)

\* C3: when get_page raises during a get_course, the call raises, every
\* cache slot is as it was before the call, and a get_course of the same
\* index, then and when it follows at once, calls get_page again.
C3_FailedLoadLeavesCache ==
    [][ /\ (last'.op = "get_course" /\ last'.loader = "raised")
            => /\ last'.raised
               /\ last'.ret = None
               /\ cache' = cache
               /\ ~IsHit(cache', get_cache_addr(last'.index))
        /\ (last'.op = "get_course" /\ last'.repeat = "after_raise")
            => /\ last'.calls = 1
               /\ last'.fetches = 1 ]_vars

C3_Witness ==
    /\ last.op = "get_course"
    /\ last.loader = "raised"
    /\ last.raised
    /\ last.repeat = "after_raise"
    /\ last.old[1]
    /\ last.old[2] # last.lookup
    /\ cache[last.lookup % size][1]
    /\ cache[last.lookup % size][2] = last.old[2]

\* Where get_course(index) has to go: cache address index div 15, a page
\* request for startrec (index div 15) * 15 when it asks for the page, and
\* the record at place index of the listing (or a placeholder, when the
\* page served has no row for it) as its result.
Routed(index, g, rows) ==
    /\ g.lookup = index \div items_per_page
    /\ g.calls = 1 => g.startrec = (index \div items_per_page) * items_per_page
    /\ ~g.raised =>
            /\ g.ret = g.cache[g.lookup % size][3][(index % items_per_page) + 1]
            /\ g.cache[g.lookup % size][2] = index \div items_per_page
            /\ IF index % items_per_page < rows
               THEN g.ret # NotFound /\ g.ret.pos = index
               ELSE g.ret = NotFound

\* What get_course(index) has to do for a negative index.
Absent(g, c) ==
    /\ g.ret = None
    /\ ~g.raised
    /\ g.lookup = None
    /\ g.calls = 0
    /\ g.fetches = 0
    /\ g.probes = 0
    /\ g.cache = c

\* The rows of the page served that got the page `page`.
RowsOf(page) == Cardinality({k \in 1 .. Len(page) : page[k] # NotFound})

\* C7: for every index i >= 0, get_course(i) looks up cache address
\* i div 15, fetches (on a miss) the page with startrec (i div 15) * 15 and
\* returns element i mod 15 of that page; for every i < 0 it returns None
\* and touches neither the cache nor the transport.  Stated of a new
\* crawler for every index of AllIndexes and every page served, and of
\* every call a crawler makes.
C7_IndexRouting ==
    /\ \A i \in AllIndexes, resp \in Served :
            LET g == get_course(cache, size, i, resp, ceiba)
            IN  IF i < 0 THEN Absent(g, cache)
                ELSE g.calls = 1 /\ ~g.raised /\ Routed(i, g, resp.rows)
    /\ [][ last'.op = "get_course" =>
            LET g == [last' EXCEPT !.op = "get_course"]
                i == last'.index
            IN  IF i < 0
                THEN Absent([ret |-> g.ret, raised |-> g.raised,
                             lookup |-> g.lookup, calls |-> g.calls,
                             fetches |-> g.fetches, probes |-> g.probes,
                             cache |-> cache'], cache)
                ELSE Routed(i, [ret |-> g.ret, raised |-> g.raised,
                                lookup |-> g.lookup, calls |-> g.calls,
                                startrec |-> g.startrec, cache |-> cache'],
                            IF g.raised THEN 0
                            ELSE RowsOf(cache'[g.lookup % size][3])) ]_vars

C7_Witness ==
    /\ last.op = "get_course"
    /\ last.index > items_per_page
    /\ last.index % items_per_page = items_per_page - 1
    /\ last.calls = 1
    /\ ~last.raised
    /\ last.lookup = 1
    /\ last.startrec = items_per_page
    /\ last.ret # NotFound
    /\ last.ret.pos = last.index

\* C8 as claimed: get_course(index) called twice in a row returns the same
\* record both times and makes at most one transport request (listing
\* requests and CEIBA probes together) over the two calls.
C8_TransportAtMostOnce ==
    [][ (last'.op = "get_course" /\ last'.repeat = "after_return")
            => /\ ~last'.raised
               /\ last'.ret = last.ret
               /\ (last.fetches + last.probes)
                    + (last'.fetches + last'.probes) <= 1 ]_vars

\* C8, amended: get_course(index) called twice in a row, the first call
\* returning, returns the same record both times; the second call makes no
\* transport request at all, and the listing page is requested at most once
\* over the two calls (the CEIBA probes of its rows come on top of that, in
\* the first call).
C8_SecondCallFromCache ==
    [][ (last'.op = "get_course" /\ last'.repeat = "after_return")
            => /\ ~last'.raised
               /\ last'.ret = last.ret
               /\ last'.fetches = 0
               /\ last'.probes = 0
               /\ last.fetches + last'.fetches <= 1 ]_vars

C8_Witness ==
    /\ last.op = "get_course"
    /\ last.repeat = "after_return"
    /\ last.index >= 0
    /\ last.calls = 0
    /\ ~last.raised
    /\ last.ret # NotFound
    /\ last.ret.PRIVATE____ceiba # None

\* C9: every page in a valid cache slot has exactly items_per_page entries,
\* whatever number of rows the source returned: the rows' records first,
\* then not-found placeholders.
C9_PageHasPageSize ==
    \A s \in 0 .. (size - 1) :
        cache[s][1] =>
            /\ Len(cache[s][3]) = items_per_page
            /\ \E r \in 0 .. items_per_page :
                \A k \in 1 .. items_per_page :
                    (cache[s][3][k] = NotFound) <=> (k > r)

(***************************************************************************)
(* Claims about read_time_clsrom, checked under DecoderSpec.               *)
(***************************************************************************)

\* The character before place i of the text that is neither white space
\* nor a comma ("" when there is none).
PrevSignificant(text, i) ==
    LET ks == {k \in 1 .. (i - 1) : ~IsSpace(text[k]) /\ text[k] # ","}
    IN  IF ks = {} THEN ""
        ELSE text[CHOOSE k \in ks : \A j \in ks : j <= k]

\* What "二1-4(普101)三5@(普102)" is to decode to.
DashExampleResult ==
    << <<Tue, <<"1", "2", "3", "4">>, <<Pu, "1", "0", "1">> >>,
       <<Wed, <<"5", "@">>, <<Pu, "1", "0", "2">> >> >>

\* C10: before 104, a dash range is closed by the token that follows the
\* dash: a time character that does not itself follow a dash is appended
\* to the time list as a token of its own (or, a "1" that may begin "10",
\* kept back for the next character), in the entry of the range and in
\* every later entry; and "二1-4(普101)三5@(普102)" decodes to the entries
\* (二, [1,2,3,4], 普101) and (三, [5,@], 普102).
C10_DashClosedByNextToken ==
    [][ /\ (dec.input = DashExample /\ dec.sem_year < 104
            /\ dec'.pc \in {"returned", "raised"})
            => (dec'.pc = "returned" /\ dec'.ret = DashExampleResult)
        /\ LET st == dec.st
               char == dec.text[dec.i]
           IN  (/\ dec.pc = "loop"
                /\ dec.i <= Len(dec.text)
                /\ dec.sem_year < 104
                /\ st.state = 1
                /\ char \in Elems(time_list_old)
                /\ st.uncommitted_time = ""
                /\ Len(st.time) > 0
                /\ st.time[Len(st.time)] \in Elems(time_list_old)
                /\ PrevSignificant(dec.text, dec.i) # "-")
                => /\ dec'.st.err = None
                   /\ IF char = "1"
                         /\ IndexOf(time_list_old, char)
                                <= IndexOf(time_list_old, st.time[Len(st.time)])
                      THEN /\ dec'.st.time = st.time
                           /\ dec'.st.uncommitted_time = "1"
                      ELSE /\ dec'.st.time = Append(st.time, char)
                           /\ dec'.st.uncommitted_time = "" ]_vars

\* The classroom text the loop has read ends with a closing parenthesis.
EndsClosed(st) == Len(st.clsrom) > 0 /\ st.clsrom[Len(st.clsrom)] = ")"

\* The text is read to its end in classroom state with brackets left open.
EndsInClassroom ==
    /\ dec.pc = "loop"
    /\ dec.i > Len(dec.text)
    /\ dec.st.state = 2
    /\ dec.st.brackets > 0

\* The entries read, then the entry the text broke off in.
PartialResult(st) == Append(st.result, <<st.day, st.time, st.clsrom>>)

\* C11 as claimed: every text that ends in classroom state with brackets
\* left open is answered with the entries read followed by the partial
\* entry (day, time, classroom text so far), never with a failure.
C11_OpenClassroomReturnsPartial ==
    [][ EndsInClassroom
            => (dec'.pc = "returned" /\ dec'.ret = PartialResult(dec.st)) ]_vars

\* C11, amended: a text that ends in classroom state with brackets left
\* open is answered with the entries read followed by the partial entry
\* when the classroom text so far ends with a closing parenthesis, and
\* with a failed assertion and no result when it does not.
C11_ClosedTailReturnsPartial ==
    [][ EndsInClassroom
            => IF EndsClosed(dec.st)
               THEN dec'.pc = "returned" /\ dec'.ret = PartialResult(dec.st)
               ELSE dec'.pc = "raised" /\ dec'.st.err = "AssertionError"
                    /\ dec'.ret = None ]_vars

\* A text was answered with an entry read whole and then a partial one.
C11_Witness ==
    /\ dec.pc = "returned"
    /\ dec.st.state = 2
    /\ dec.st.brackets > 0
    /\ Len(dec.st.result) > 0
    /\ dec.ret = PartialResult(dec.st)

\* The entries the loop has parsed when the text ends: those read whole
\* and, when the text breaks off after a closing parenthesis inside a
\* classroom, the one it broke off in.
Parsed(st) ==
    IF EndsClosed(st) /\ st.brackets > 0 THEN PartialResult(st)
    ELSE st.result

\* Every entry's classroom is "請洽系所辦".
AllSeeOffice(entries) ==
    \A k \in 1 .. Len(entries) : entries[k][3] = SeeOffice

\* The entries with the side buffer as the classroom of each.
Reattached(entries, buffer) ==
    [k \in 1 .. Len(entries) |-> <<entries[k][1], entries[k][2], buffer>>]

\* C12: when a decode returns and at least one entry was parsed, the side
\* buffer is the classroom of every entry returned if and only if the
\* buffer is not empty and every parsed classroom is "請洽系所辦";
\* otherwise the entries are returned with the classrooms parsed for them.
C12_ReattachIffAllSeeOffice ==
    (dec.pc = "returned" /\ Len(Parsed(dec.st)) >= 1)
        => LET entries == Parsed(dec.st)
               buffer == dec.st.unexpected_clsrom
           IN  IF buffer # <<>> /\ AllSeeOffice(entries)
               THEN dec.ret = Reattached(entries, buffer)
               ELSE dec.ret = entries

\* Two entries with the classroom "請洽系所辦" were returned with the side
\* buffer as their classroom.
C12_Witness ==
    /\ dec.pc = "returned"
    /\ Len(dec.st.result) >= 2
    /\ AllSeeOffice(dec.st.result)
    /\ dec.st.unexpected_clsrom # <<>>
    /\ dec.ret = Reattached(dec.st.result, dec.st.unexpected_clsrom)

(***************************************************************************)
(* More claims about NolCrawler, checked under CrawlerSpec.                *)
(***************************************************************************)

\* page is a page of address addr: each entry is the record at its place
\* of the listing, or a placeholder.
PageOf(page, addr) ==
    \A k \in 1 .. Len(page) :
        \/ page[k] = NotFound
        \/ (page[k] # NotFound
                /\ page[k].pos = addr * items_per_page + k - 1)

\* The cache has size slots, and a valid slot at place s holds an address
\* that maps to s with a page of that address.
SlotsSound(c) ==
    /\ DOMAIN c = 0 .. (size - 1)
    /\ \A s \in 0 .. (size - 1) :
            c[s][1] => /\ c[s][2] % size = s
                       /\ PageOf(c[s][3], c[s][2])

\* C13: in every reachable state the cache has cache_size slots and each
\* valid slot at place s holds an address a with a mod cache_size = s and
\* the page loaded for a; a slot changes only by being invalidated or by a
\* get_course that loaded the page of its address, and a get_course served
\* from the cache returns the entry of the page held for its own address,
\* so never one of a page loaded for another address of the same slot.
C13_SlotsHoldOwnPage ==
    /\ SlotsSound(cache)
    /\ [][ /\ SlotsSound(cache')
           /\ \A s \in 0 .. (size - 1) :
                cache'[s] # cache[s] =>
                    \/ cache'[s] = EmptySlot
                    \/ /\ last'.op = "get_course"
                       /\ last'.loader = "returned"
                       /\ cache'[s][1]
                       /\ cache'[s][2] = last'.lookup
                       /\ last'.ret =
                            cache'[s][3][(last'.index % items_per_page) + 1]
           /\ (last'.op = "get_course" /\ last'.index >= 0
                    /\ last'.calls = 0)
                => LET s == last'.lookup % size
                   IN  /\ cache' = cache
                       /\ cache[s][1]
                       /\ cache[s][2] = last'.lookup
                       /\ last'.ret =
                            cache[s][3][(last'.index % items_per_page) + 1]
                       /\ (last'.ret = NotFound
                            \/ (last'.ret # NotFound
                                    /\ last'.ret.pos = last'.index)) ]_vars

\* A get_course of the second page was served from a one-slot cache, the
\* slot every address maps to.
C13_Witness ==
    /\ size = 1
    /\ last.op = "get_course"
    /\ last.index >= items_per_page
    /\ last.calls = 0
    /\ cache[0][1]
    /\ cache[0][2] = 1
    /\ last.ret # NotFound
    /\ last.ret.pos = last.index

(***************************************************************************)
(* More claims about read_time_clsrom, checked under DecoderSpec.          *)
(***************************************************************************)

\* The alphabet of slots before 104, in its order.
OldAlphabet == <<"0", "1", "2", "3", "4", "@", "5", "6", "7", "8", "9", "A",
                 "B", "C", "D">>

\* The place of slot x in OldAlphabet, and of the slot a token stands for
\* ("10" stands for A).
PlaceOf(x) == CHOOSE k \in 1 .. Len(OldAlphabet) : OldAlphabet[k] = x
PlaceOfToken(y) == IF y = <<"1", "0">> THEN PlaceOf("A") ELSE PlaceOf(y[1])

\* Y is a token that "X-Y" can end with: a slot not before X, or "10"
\* after a slot from 1 on ("0-10" reads as 0-1 and a 0).
ClosesRange(x, y) ==
    /\ PlaceOf(x) <= PlaceOfToken(y)
    /\ y = <<"1", "0">> => PlaceOf(x) >= PlaceOf("1")

\* C14: before 104, "X-Y" decodes to every slot of the alphabet
\* 0,1,2,3,4,@,5,6,7,8,9,A,B,C,D from X to Y, both included, in the
\* alphabet's order (1-5 includes @), and no second dash is needed: the
\* text "一X-Y(普)" returns the one entry (一, [X .. Y], 普).
C14_RangeExpandsInclusive ==
    \A x \in OldSlots, y \in {<<c>> : c \in OldSlots} \cup {<<"1", "0">>} :
        (/\ dec.pc \in {"returned", "raised"}
         /\ dec.sem_year < 104
         /\ dec.input = RangeText(x, y)
         /\ ClosesRange(x, y))
            => /\ dec.pc = "returned"
               /\ dec.ret = << <<Mon,
                                 SubSeq(OldAlphabet, PlaceOf(x),
                                        PlaceOfToken(y)),
                                 <<Pu>> >> >>

\* "一1-5(普)" was decoded to the times 1, 2, 3, 4, @, 5.
C14_Witness ==
    /\ dec.pc = "returned"
    /\ dec.sem_year < 104
    /\ dec.input = RangeText("1", <<"5">>)
    /\ dec.ret = << <<Mon, <<"1", "2", "3", "4", "@", "5">>, <<Pu>> >> >>

\* The loop body pushes an entry in this step: a character read in
\* classroom state brings the brackets back to 0.
CompletesEntry ==
    /\ dec.pc = "loop"
    /\ dec.i <= Len(dec.text)
    /\ dec.st.state = 2
    /\ ~IsSpace(dec.text[dec.i])
    /\ dec'.st.err = None
    /\ dec'.st.brackets = 0

\* The entry is pushed and day, time and classroom are cleared.
EntryPushed ==
    /\ dec'.st.result
            = Append(dec.st.result,
                     <<dec.st.day, dec.st.time, dec.st.clsrom>>)
    /\ dec'.st.day = ""
    /\ dec'.st.time = <<>>
    /\ dec'.st.clsrom = <<>>

\* The characters that may come next, white space apart.
NextChars == Days \cup {"0", "1", "@", "A", "-", "*", ",", "(", ")", Pu}

\* The locals after the character char is read next.
ReadsNext(char) == read_char(dec'.st, char, dec.sem_year >= 104)

\* C15 as claimed: when an entry completes it is appended to the result,
\* day, time and classroom are cleared, and the next character that is not
\* white space must be a weekday symbol, which becomes the day of the next
\* entry; any other character, an opening parenthesis too, is an error.
C15_DayStateAfterEntry ==
    [][ CompletesEntry
            => /\ EntryPushed
               /\ \A char \in NextChars :
                    IF char \in Days
                    THEN /\ ReadsNext(char).err = None
                         /\ ReadsNext(char).day = char
                         /\ ReadsNext(char).state = 1
                    ELSE ReadsNext(char).err # None ]_vars

\* C15, amended: when an entry completes it is appended to the result and
\* day, time and classroom are cleared; the decoder is then where it
\* began (state 3, no bracket open): the next character that is not white
\* space is a weekday symbol, which becomes the day of the next entry, or
\* an opening parenthesis, which opens bracketed text kept in the side
\* buffer and leaves the entries as they are; any other character is an
\* error.
C15_DayOrBracketAfterEntry ==
    [][ CompletesEntry
            => /\ EntryPushed
               /\ dec'.st.state = 3
               /\ \A char \in NextChars :
                    IF char \in Days
                    THEN /\ ReadsNext(char).err = None
                         /\ ReadsNext(char).day = char
                         /\ ReadsNext(char).state = 1
                    ELSE IF char = "("
                    THEN /\ ReadsNext(char).err = None
                         /\ ReadsNext(char).state = 3
                         /\ ReadsNext(char).brackets = 1
                         /\ ReadsNext(char).day = ""
                         /\ ReadsNext(char).result = dec'.st.result
                    ELSE ReadsNext(char).err = "AssertionError" ]_vars

\* After an entry and bracketed text that followed it, a weekday symbol
\* was read as the day of a second entry.
C15_Witness ==
    /\ dec.pc = "loop"
    /\ dec.st.err = None
    /\ Len(dec.st.result) = 1
    /\ dec.st.unexpected_clsrom = <<Pu>>
    /\ dec.st.state = 1
    /\ dec.st.day = Tue

\* The three situations the text may end in for a result to be returned.
EndsUnbalanced(st) == EndsClosed(st) /\ st.brackets > 0
EndsBufferOnly(st) ==
    /\ st.day = "" /\ st.time = <<>> /\ st.clsrom = <<>>
    /\ Len(st.result) = 0
    /\ st.unexpected_clsrom # <<>>
EndsClean(st) ==
    /\ st.day = "" /\ st.time = <<>> /\ st.clsrom = <<>>
    /\ st.brackets = 0

\* C16: a result is returned only when the text ends (1) in a classroom
\* text that ends with a closing parenthesis, brackets still open: the
\* entries and the partial entry; (2) with day, time and classroom empty,
\* no entry and a side buffer that is not empty: one entry with empty day
\* and time and the buffer as classroom; (3) with day, time and classroom
\* empty and no bracket open: the entries.  Every other end of the text
\* fails, and a decode that fails returns nothing.
C16_ThreeWaysToReturn ==
    /\ dec.pc = "returned" =>
            IF EndsUnbalanced(dec.st)
            THEN dec.ret = PartialResult(dec.st)
            ELSE IF EndsBufferOnly(dec.st)
            THEN dec.ret = << <<"", "", dec.st.unexpected_clsrom>> >>
            ELSE /\ EndsClean(dec.st)
                 /\ Len(dec.ret) = Len(dec.st.result)
                 /\ \A k \in 1 .. Len(dec.ret) :
                        /\ dec.ret[k][1] = dec.st.result[k][1]
                        /\ dec.ret[k][2] = dec.st.result[k][2]
    /\ dec.pc = "raised" => dec.ret = None
    /\ (dec.pc = "loop" /\ dec.i > Len(dec.text)) =>
            IF EndsUnbalanced(dec.st) \/ EndsBufferOnly(dec.st)
                \/ EndsClean(dec.st)
            THEN finish(dec.st).err = None
            ELSE /\ finish(dec.st).err = "AssertionError"
                 /\ finish(dec.st).ret = None

\* A text of bracketed text alone, its bracket left open, was answered
\* with the one entry made of the side buffer.
C16_Witness ==
    /\ dec.pc = "returned"
    /\ EndsBufferOnly(dec.st)
    /\ dec.st.brackets > 0
    /\ dec.ret = << <<"", "", dec.st.unexpected_clsrom>> >>

\* C17: before 104, while a "1" is held back as the possible beginning of
\* "10", the only character accepted next (white space and commas apart)
\* is "0", which makes the slot A; every other character, the opening
\* parenthesis of the classroom too, fails the decode, so that a
\* character held back is never dropped from the result.
C17_PendingOnlyCompletedByZero ==
    [][ (/\ dec.pc = "loop"
         /\ dec.i <= Len(dec.text)
         /\ dec.sem_year < 104
         /\ dec.st.state = 1
         /\ dec.st.uncommitted_time # ""
         /\ ~IsSpace(dec.text[dec.i])
         /\ dec.text[dec.i] # ",")
            => IF dec.text[dec.i] = "0"
               THEN /\ dec'.st.err = None
                    /\ dec'.st.uncommitted_time = ""
                    /\ Len(dec'.st.time) > 0
                    /\ dec'.st.time[Len(dec'.st.time)] = "A"
               ELSE dec'.pc = "raised" ]_vars

\* C18: before 104, a "*" read in the time list is appended to the times
\* as a token of its own, and the decode goes on as it would without it:
\* a slot read after the "*" in the same entry is decoded (appended, or a
\* "1" held back as the possible beginning of "10") and nothing fails.
C18_WildcardStandsAlone ==
    [][ /\ (/\ dec.pc = "loop"
            /\ dec.i <= Len(dec.text)
            /\ dec.sem_year < 104
            /\ dec.st.state = 1
            /\ dec.st.uncommitted_time = ""
            /\ dec.text[dec.i] = "*")
            => /\ dec'.st.err = None
               /\ dec'.st.time = Append(dec.st.time, "*")
        /\ (/\ dec.pc = "loop"
            /\ dec.i <= Len(dec.text)
            /\ dec.sem_year < 104
            /\ dec.st.state = 1
            /\ dec.st.uncommitted_time = ""
            /\ ~dec.st.time_dash
            /\ Len(dec.st.time) > 0
            /\ dec.st.time[Len(dec.st.time)] = "*"
            /\ dec.text[dec.i] \in Elems(time_list_old))
            => /\ dec'.st.err = None
               /\ \/ dec'.st.time = Append(dec.st.time, dec.text[dec.i])
                  \/ dec'.st.uncommitted_time = "1" ]_vars

\* C19: all through a decode the bracket depth is not negative, it is 0 in
\* day and time-list state and at least 1 in classroom state, and the
\* state is one of 0 to 3: the loop never reaches the "assert False" for a
\* negative depth (line 301) nor the one for an unknown state (line 315).
C19_BracketDepth ==
    /\ dec.st.brackets >= 0
    /\ dec.st.state \in 0 .. 3
    /\ dec.st.state \in {0, 1} => dec.st.brackets = 0
    /\ dec.st.state = 2 => dec.st.brackets >= 1

\* The loop is in a classroom, inside nested brackets.
C19_Witness ==
    /\ dec.pc = "loop"
    /\ dec.st.state = 2
    /\ dec.st.brackets = 2
    /\ dec.st.clsrom # <<>>

(***************************************************************************)
(* The page as a whole, checked under CrawlerSpec.                         *)
(***************************************************************************)

\* The indexes get_cache_addr maps to addr.  The division truncates
\* towards 0, so address 0 is also the address of -14 .. -1.
IndexesOf(addr) ==
    IF addr > 0
    THEN (addr * items_per_page)
            .. (addr * items_per_page + items_per_page - 1)
    ELSE IF addr = 0
    THEN (-(items_per_page - 1)) .. (items_per_page - 1)
    ELSE (addr * items_per_page - (items_per_page - 1))
            .. (addr * items_per_page)

\* C20: when make_course raises on a row of the page fetched, get_course
\* raises for the index asked, the failing row being the one asked for or
\* another one of the page, nothing is stored in the cache, no index of
\* that page is held by the cache, and a get_course of an index of that
\* page that comes next asks for the page again.
C20_PageAllOrNothing ==
    [][ /\ (last'.op = "get_course" /\ last'.failed_row # 0)
            => /\ last'.raised
               /\ last'.ret = None
               /\ last'.fetches = 1
               /\ cache' = cache
               /\ \A index \in IndexesOf(last'.lookup) :
                    ~IsHit(cache', get_cache_addr(index))
        /\ (/\ last.op = "get_course"
            /\ last.failed_row # 0
            /\ last'.op = "get_course"
            /\ last'.index >= 0
            /\ last'.lookup = last.lookup)
            => /\ last'.calls = 1
               /\ last'.fetches = 1 ]_vars

\* A get_course raised for a row other than the one asked for, right after
\* the same call had raised, with a page of another address in the slot.
C20_Witness ==
    /\ last.op = "get_course"
    /\ last.repeat = "after_raise"
    /\ last.raised
    /\ last.fetches = 1
    /\ last.failed_row # 0
    /\ last.failed_row # (last.index % items_per_page) + 1
    /\ ~IsHit(cache, last.lookup)

(***************************************************************************)
(* The crawl loop of nol_app, checked under AppFairSpec.                   *)
(***************************************************************************)

\* The indexes from a up to b - 1, in order.
Range(a, b) == [k \in 1 .. (b - a) |-> a + k - 1]

\* The program has ended, in whatever way.
Ended == app.pc \in {"done", "exit", "crashed"}

\* C21 as claimed: the loop prints the records of the indexes from
\* start_index to count - 1, in increasing order, none left out and none
\* twice, whatever start_index is: when the program has ended and there
\* were courses, these are the indexes it printed.
C21_PrintsFromStartIndex ==
    (Ended /\ app.count > 0) =>
        app.emitted = Range(app.start_index, app.count)

\* The loop prints in order, without a gap: what is printed so far are the
\* indexes from start_index up to the one the loop is at.
PrintedInOrder ==
    app.pc \notin {"count", "exit"} =>
        /\ app.index >= app.start_index
        /\ app.emitted = Range(app.start_index, app.index)

\* How the program ends: after the last index, when start_index is not
\* negative; by the AttributeError at its first index, with nothing
\* printed, when it is.
EndsAsStarted ==
    /\ app.pc = "done" =>
            /\ app.start_index >= 0
            /\ app.emitted = Range(app.start_index, app.count)
    /\ app.pc = "crashed" =>
            /\ app.start_index < 0
            /\ app.index = app.start_index
            /\ app.emitted = <<>>

\* A call that raised is followed by a call for the same index, and the
\* loop moves to the next index only from a call for its index that
\* returned, printing that index.
RetriesSameIndex ==
    /\ (app.pc = "call" /\ app'.pc = "call")
            => /\ app'.outcome = "raised"
               /\ app'.asked = app.index
               /\ app'.index = app.index
               /\ app'.emitted = app.emitted
    /\ (app.pc = "call" /\ app.outcome = "raised")
            => /\ app.asked = app.index
               /\ app'.asked = app.asked
    /\ (app.pc # "count" /\ app'.index # app.index)
            => /\ app.pc = "print"
               /\ app.outcome = "returned"
               /\ app.asked = app.index
               /\ app'.index = app.index + 1
               /\ app'.emitted = Append(app.emitted, app.index)

\* C21, amended: for a start_index that is not negative the loop prints
\* the records of the indexes from start_index to count - 1 in increasing
\* order, none left out and none twice; after a get_course(i) that raised
\* it calls get_course(i) again and it does not move to i + 1 before
\* get_course(i) has returned; when every get_course that is tried again
\* and again returns in the end, the loop ends, having printed
\* count - start_index records (none when start_index >= count).  For a
\* negative start_index the program ends at its first index with an
\* AttributeError and prints nothing.
C21_PrintsFromStartIndexNotNegative ==
    /\ [](PrintedInOrder /\ EndsAsStarted)
    /\ [][RetriesSameIndex]_vars
    /\ <>Ended
    /\ [](app.start_index >= 0 /\ app.count > 0 => <>(app.pc = "done"))

\* The loop has ended after printing every index of two pages, the last
\* of them from a get_course that had raised and was called again.
C21_Witness ==
    /\ app.pc = "done"
    /\ app.start_index = 0
    /\ app.count > items_per_page
    /\ app.emitted = Range(0, app.count)
    /\ ~app.first_error
    /\ app.asked = app.count - 1
    /\ app.outcome = "returned"

====
